---- MODULE Spec2Model ----
(***************************************************************************)
(* Model of Music-Album-Scaler: src/utils.py (tag adapters, embed_cover,   *)
(* safe_rename, process_path) and src/main.py (process_files).             *)
(*                                                                         *)
(* Text (file names, extensions, titles) is a sequence of one-character    *)
(* strings, so that splitext, lower() and the suffixing of safe_rename are *)
(* computed on characters as the code computes them.  A path is the name   *)
(* of a file inside the one directory the batch works in.                  *)
(***************************************************************************)
EXTENDS Integers, Sequences, FiniteSets, TLC

VARIABLES
    fs,         \* the directory: file name -> file record
    fs0,        \* the directory as it was before the run (never changes)
    config,     \* Config: do_embed, do_rename, backup, workers
    files,      \* the list handed to process_files
    pc,         \* per task: where process_path stands
    loc,        \* per task: the locals of process_path / embed_cover / safe_rename
    result,     \* per task: the tuple process_path returned (the future's result)
    log,        \* the results the driving loop has consumed, in completion order
    counters,   \* processed, skipped, errors of process_files
    mainpc,     \* the driving loop: "loop" or "done"
    faults,     \* I/O failures the environment has injected so far
    emb,        \* direct calls of embed_cover / extract_cover_bytes (SpecEmbed)
    tree,       \* the parent directory of the folders: folder name -> folder
    call        \* direct calls of the other functions: arguments and what came back

vars == <<fs, fs0, config, files, pc, loc, result, log, counters, mainpc, faults, emb,
          tree, call>>

\* Python None is the empty tuple, a present value x the 1-tuple <<x>>
None == <<>>
Some(x) == <<x>>

\* ------------------------------------------------------------------ bounds
NumAssets == 2
MaxFaults == 1
MaxCalls == 2

\* Config.workers as the menu leaves it
DefaultWorkers == 4

\* ------------------------------------------------------------------ text
UpperLetters == <<"A","B","C","D","E","F","G","H","I","J","K","L","M",
                  "N","O","P","Q","R","S","T","U","V","W","X","Y","Z">>
LowerLetters == <<"a","b","c","d","e","f","g","h","i","j","k","l","m",
                  "n","o","p","q","r","s","t","u","v","w","x","y","z">>
DigitChars == <<"0","1","2","3","4","5","6","7","8","9">>

\* the lower-case letter of every upper-case letter
LowerOf ==
    [c \in {UpperLetters[i] : i \in 1..26} |->
        LowerLetters[CHOOSE i \in 1..26 : UpperLetters[i] = c]]

\* str.lower() on one character
LowerChar(c) == IF c \in DOMAIN LowerOf THEN LowerOf[c] ELSE c

\* str.lower()
Lower(s) == [i \in 1..Len(s) |-> LowerChar(s[i])]

\* os.path.splitext on a file name: the extension starts at the last dot,
\* unless only dots precede it
SplitExt(s) ==
    LET dots == {i \in 1..Len(s) : s[i] = "."}
        d == IF dots = {} THEN 0 ELSE CHOOSE i \in dots : \A j \in dots : j <= i
    IN IF d > 0 /\ (\E j \in 1..(d - 1) : s[j] # ".")
       THEN <<SubSeq(s, 1, d - 1), SubSeq(s, d, Len(s))>>
       ELSE <<s, <<>>>>

\* str(n) for n >= 0
RECURSIVE Digits(_)
Digits(n) == IF n < 10 THEN <<DigitChars[n + 1]>>
             ELSE Digits(n \div 10) \o <<DigitChars[(n % 10) + 1]>>

\* f"{n:02d}"
Pad2(n) == IF n < 10 THEN <<"0">> \o Digits(n) ELSE Digits(n)

\* ------------------------------------------------------------------ sanitize_filename
MaxLen == 200

IsSpace(c) == c \in {" ", "\t", "\n", "\r", "\f"}

\* \w of the regular expression: letters, digits, underscore
IsWord(c) ==
    \/ \E i \in 1..26 : c = UpperLetters[i] \/ c = LowerLetters[i]
    \/ \E i \in 1..10 : c = DigitChars[i]
    \/ c = "_"

\* the characters the class [^\w \-\.()\[\]] does not match
Allowed(c) == IsWord(c) \/ c \in {" ", "-", ".", "(", ")", "[", "]"}

RECURSIVE LStrip(_)
LStrip(s) == IF s # <<>> /\ IsSpace(Head(s)) THEN LStrip(Tail(s)) ELSE s

RECURSIVE RStrip(_)
RStrip(s) == IF s # <<>> /\ IsSpace(s[Len(s)]) THEN RStrip(SubSeq(s, 1, Len(s) - 1)) ELSE s

\* s.replace("/", "_")
ReplaceSlash(s) == [i \in 1..Len(s) |-> IF s[i] = "/" THEN "_" ELSE s[i]]

\* s.replace("\\\\", "_"): the Python literal is two backslash characters;
\* pairs are replaced from the left, without overlap, so a pair starts where an
\* even number of backslashes precedes in the run
ReplaceBackslashes(s) ==
    LET bs(i) == s[i] = "\\"
        runBefore(i) == Cardinality({j \in 1..(i - 1) : \A k \in j..(i - 1) : bs(k)})
        pairStart(i) == bs(i) /\ i < Len(s) /\ bs(i + 1) /\ runBefore(i) % 2 = 0
        keep(i) == ~(i > 1 /\ pairStart(i - 1))
        idx == SelectSeq([i \in 1..Len(s) |-> i], keep)
    IN [k \in 1..Len(idx) |-> IF pairStart(idx[k]) THEN "_" ELSE s[idx[k]]]

\* re.sub(r"\s+", " ", s): the first character of a whitespace run becomes a
\* space, the rest of the run goes
CollapseSpaces(s) ==
    LET keep(i) == ~(IsSpace(s[i]) /\ i > 1 /\ IsSpace(s[i - 1]))
        idx == SelectSeq([i \in 1..Len(s) |-> i], keep)
    IN [k \in 1..Len(idx) |-> IF IsSpace(s[idx[k]]) THEN " " ELSE s[idx[k]]]

sanitize_filename(s) ==
    LET s1 == RStrip(LStrip(s))
        s2 == ReplaceBackslashes(ReplaceSlash(s1))
        s3 == SelectSeq(s2, Allowed)
        s4 == CollapseSpaces(s3)
    IN IF Len(s4) > MaxLen THEN RStrip(SubSeq(s4, 1, MaxLen)) ELSE s4

\* ------------------------------------------------------------------ extensions and adapters
DotMp3 == <<".", "m", "p", "3">>
DotM4a == <<".", "m", "4", "a">>
DotMp4 == <<".", "m", "p", "4">>
DotFlac == <<".", "f", "l", "a", "c">>
DotOgg == <<".", "o", "g", "g">>
DotOpus == <<".", "o", "p", "u", "s">>

\* the if/elif chain every tag function runs on its `ext`
AdapterOf(ext) ==
    IF ext = DotMp3 THEN "ID3"
    ELSE IF ext \in {DotM4a, DotMp4} THEN "MP4"
    ELSE IF ext = DotFlac THEN "FLAC"
    ELSE IF ext \in {DotOgg, DotOpus} THEN "Vorbis"
    ELSE "Generic"

\* the `ext` each reader dispatches on: splitext, then lower()
ExtractAdapter(path) == AdapterOf(Lower(SplitExt(path)[2]))
TrackAdapter(path) == AdapterOf(Lower(SplitExt(path)[2]))
TitleAdapter(path) == AdapterOf(Lower(SplitExt(path)[2]))
AlbumAdapter(path) == AdapterOf(Lower(SplitExt(path)[2]))

\* the `ext` embed_cover dispatches on: lower-cased at entry, but the backup
\* block rebinds it to the extension as written in the path
EmbedDispatchExt(path, backup) ==
    IF backup THEN SplitExt(path)[2] ELSE Lower(SplitExt(path)[2])

EmbedAdapter(path, backup) == AdapterOf(EmbedDispatchExt(path, backup))

\* f"{base}_backup{ext}"
BackupPath(path) ==
    SplitExt(path)[1] \o <<"_", "b", "a", "c", "k", "u", "p">> \o SplitExt(path)[2]

\* ------------------------------------------------------------------ images
TargetWidth == 600

\* Image bytes: the format the decoder finds ("junk": not an image), the pixel
\* size, and which picture it is.
Decodable(d) == d.fmt # "junk"

\* process_image_to_jpeg raises: Image.open on bytes that are no image, or
\* im.resize asked for a height of int(target_width * orig_h / orig_w) = 0,
\* which the imaging library refuses (and no JPEG of height 0 can be saved)
NormalizeRaises(d) ==
    \/ ~Decodable(d)
    \/ d.w > TargetWidth /\ (TargetWidth * d.h) \div d.w < 1

\* process_image_to_jpeg when it returns
process_image_to_jpeg(d) ==
    LET target_h == (TargetWidth * d.h) \div d.w
    IN IF d.w > TargetWidth
       THEN [fmt |-> "jpeg", w |-> TargetWidth, h |-> target_h, img |-> d.img]
       ELSE [fmt |-> "jpeg", w |-> d.w, h |-> d.h, img |-> d.img]

\* APIC(encoding=3, mime="image/jpeg", type=3, desc="", data=jpeg_bytes)
Apic(jpeg) == [mime |-> "image/jpeg", type |-> 3, desc |-> "", data |-> jpeg]

\* the Picture block embed_cover builds for FLAC and Vorbis
PictureBlock(jpeg) ==
    [kind |-> "picture", mime |-> "image/jpeg", type |-> 3, desc |-> "",
     width |-> IF Decodable(jpeg) THEN jpeg.w ELSE 0,
     height |-> IF Decodable(jpeg) THEN jpeg.h ELSE 0,
     depth |-> IF Decodable(jpeg) THEN 24 ELSE 0,
     colors |-> 0, data |-> jpeg]

\* MP4Cover(jpeg_bytes, imageformat=MP4Cover.FORMAT_JPEG)
Mp4Cover(jpeg) == [kind |-> "covr", imageformat |-> "JPEG", data |-> jpeg]

\* ------------------------------------------------------------------ tag readers
\* A file record: id3 (an ID3 header opens the file), apics (the APIC frames
\* its tag interface lists), native (covr atoms, FLAC pictures or
\* METADATA_BLOCK_PICTURE values), opens (mutagen.File recognises it), track
\* and title (what its tags hold), asset (whose audio it is), bak (made by copy2).
Cover(data, mime) == [data |-> data, mime |-> mime]
SomeCover(data, mime) == Some(Cover(data, mime))

extract_cover_bytes(f, path) ==
    LET a == ExtractAdapter(path) IN
    IF a = "ID3" THEN
        IF ~f.id3 THEN None
        ELSE IF f.apics = <<>> THEN None
        ELSE SomeCover(f.apics[1].data, f.apics[1].mime)
    ELSE IF a = "MP4" THEN
        IF f.native = <<>> THEN None
        ELSE SomeCover(f.native[1].data,
                   IF f.native[1].data.fmt = "jpeg" THEN "image/jpeg" ELSE "image/png")
    ELSE IF a = "FLAC" THEN
        IF f.native = <<>> THEN None
        ELSE SomeCover(f.native[1].data, f.native[1].mime)
    ELSE IF a = "Vorbis" THEN
        IF f.native = <<>> THEN None
        ELSE IF f.native[1].kind = "picture"
             THEN SomeCover(f.native[1].data, f.native[1].mime)
        ELSE IF f.native[1].data.fmt = "jpeg" THEN SomeCover(f.native[1].data, "image/jpeg")
        ELSE IF f.native[1].data.fmt = "png" THEN SomeCover(f.native[1].data, "image/png")
        ELSE None
    ELSE
        IF ~f.opens THEN None
        ELSE IF f.apics # <<>> THEN SomeCover(f.apics[1].data, f.apics[1].mime)
        ELSE None

get_track_number(f, path) ==
    LET a == TrackAdapter(path) IN
    IF a = "ID3" /\ ~f.id3 THEN None
    ELSE IF a = "Generic" /\ ~f.opens THEN None
    ELSE f.track

get_title(f, path) ==
    LET a == TitleAdapter(path) IN
    IF a = "ID3" /\ ~f.id3 THEN None
    ELSE IF a = "Generic" /\ ~f.opens THEN None
    ELSE f.title

\* ------------------------------------------------------------------ embed_cover
\* what a successful save of the selected adapter leaves in the file
EmbedWrite(f, a, jpeg) ==
    IF a = "ID3" THEN [f EXCEPT !.id3 = TRUE, !.apics = <<Apic(jpeg)>>]
    ELSE IF a = "MP4" THEN [f EXCEPT !.native = <<Mp4Cover(jpeg)>>]
    ELSE IF a \in {"FLAC", "Vorbis"} THEN [f EXCEPT !.native = <<PictureBlock(jpeg)>>]
    ELSE IF ~f.opens THEN f
    ELSE IF f.id3 THEN [f EXCEPT !.apics = <<Apic(jpeg)>>]
    ELSE f

Exists(dir, name) == name \in DOMAIN dir

\* the backup block: shutil.copy2(path, bak) when bak does not exist; a failing
\* copy is swallowed
EmbedBackup(dir, path, backup, copyOk) ==
    IF backup /\ ~Exists(dir, BackupPath(path)) /\ copyOk /\ Exists(dir, path)
    THEN [n \in DOMAIN dir \cup {BackupPath(path)} |->
            IF n = BackupPath(path) THEN [dir[path] EXCEPT !.bak = TRUE] ELSE dir[n]]
    ELSE dir

\* the tag rewrite of embed_cover; a failing save is swallowed
EmbedSave(dir, path, jpeg, backup, writeOk) ==
    IF writeOk /\ Exists(dir, path)
    THEN [dir EXCEPT ![path] = EmbedWrite(dir[path], EmbedAdapter(path, backup), jpeg)]
    ELSE dir

\* embed_cover, start to end
embed_cover(dir, path, jpeg, backup, copyOk, writeOk) ==
    EmbedSave(EmbedBackup(dir, path, backup, copyOk), path, jpeg, backup, writeOk)

\* ------------------------------------------------------------------ files and pictures of the model
FileRec(asset, id3, apics, native, opens, track, title) ==
    [asset |-> asset, bak |-> FALSE, id3 |-> id3, apics |-> apics, native |-> native,
     opens |-> opens, track |-> track, title |-> title]

PngWide == [fmt |-> "png", w |-> 1200, h |-> 900, img |-> 1]
JpegSmall == [fmt |-> "jpeg", w |-> 500, h |-> 500, img |-> 2]
Junk == [fmt |-> "junk", w |-> 0, h |-> 0, img |-> 3]

OldApic(d) == [mime |-> IF d.fmt = "png" THEN "image/png" ELSE "image/jpeg",
               type |-> 3, desc |-> "", data |-> d]
OldPicture(d) == [kind |-> "picture", mime |-> IF d.fmt = "png" THEN "image/png" ELSE "image/jpeg",
                  type |-> 3, desc |-> "", width |-> d.w, height |-> d.h, depth |-> 24,
                  colors |-> 0, data |-> d]
OldCovr(d) == [kind |-> "covr", imageformat |-> IF d.fmt = "png" THEN "PNG" ELSE "JPEG", data |-> d]
RawValue(d) == [kind |-> "raw", data |-> d]

\* a file of somebody else (not of the batch) that already sits in the directory
OtherFile == FileRec(0, FALSE, <<>>, <<>>, TRUE, None, None)

\* no direct call of embed_cover is under way
NoEmb == [path |-> <<>>, calls |-> 0, phase |-> "idle"]

\* no folder is being worked on, no other function has been called
NoTree == <<>>
NoCall == [fn |-> "none"]

\* ------------------------------------------------------------------ safe_rename
\* mutant of KeepLooking: the loop forgets that the target may be the file itself
KeepLookingAny(dir, target, old_path) == Exists(dir, target)

\* the loop condition of safe_rename, evaluated for the current target
KeepLooking(dir, target, old_path) == Exists(dir, target) /\ target # old_path

\* f"{base}_{count}{ext}"
Suffixed(base, count, ext) == base \o <<"_">> \o Digits(count) \o ext

\* shutil.move(old_path, target) on files of one directory: a rename that
\* replaces whatever the target names
Move(dir, old_path, target) ==
    IF old_path = target THEN dir
    ELSE [n \in (DOMAIN dir \ {old_path}) \cup {target} |->
            IF n = target THEN dir[old_path] ELSE dir[n]]

\* ------------------------------------------------------------------ process_path
Result(status, path, msg) == [status |-> status, path |-> path, msg |-> msg]

DecodeMsg == "cannot identify image file"

\* mutant of AfterExtract: a cover that does not decode is passed over and
\* process_path goes on to the rename block
AfterExtractSwallows(info) ==
    IF info = None THEN "rename"
    ELSE IF NormalizeRaises(info[1].data) THEN "rename"
    ELSE "embed"

\* where process_path goes once extract_cover_bytes has answered
AfterExtract(info) ==
    IF info = None THEN "rename"
    ELSE IF NormalizeRaises(info[1].data) THEN "error"
    ELSE "embed"

\* the name process_path derives: f"{int(track):02d}. {title}" + ext
NewName(f, path) ==
    LET t == get_title(f, path)
        title == IF t = None \/ t[1] = <<>> THEN SplitExt(path)[1] ELSE t[1]
    IN Pad2(get_track_number(f, path)[1]) \o <<".", " ">> \o sanitize_filename(title)
          \o SplitExt(path)[2]

\* mutant of ProcessPathReturn: the first test forgets "and not do_rename"
ProcessPathReturnEmbedFirst(cfg, did_something, path, new_path) ==
    IF ~did_something THEN
        IF cfg.do_embed THEN Result("skipped", path, "no embedded cover")
        ELSE IF cfg.do_rename /\ ~cfg.do_embed
             THEN Result("skipped", path, "no track number metadata")
        ELSE Result("skipped", path, "no cover and no track number")
    ELSE Result("processed", new_path, "ok")

\* the tail of process_path: what it returns once both steps are over
ProcessPathReturn(cfg, did_something, path, new_path) ==
    IF ~did_something THEN
        IF cfg.do_embed /\ ~cfg.do_rename THEN Result("skipped", path, "no embedded cover")
        ELSE IF cfg.do_rename /\ ~cfg.do_embed
             THEN Result("skipped", path, "no track number metadata")
        ELSE Result("skipped", path, "no cover and no track number")
    ELSE Result("processed", new_path, "ok")

\* the return inside the rename block when there is no track number
NoTrackReturn(cfg, did_something, path) ==
    IF ~cfg.do_embed THEN Result("skipped", path, "no track number metadata")
    ELSE ProcessPathReturn(cfg, did_something, path, path)

\* ------------------------------------------------------------------ process_files
\* mutant of UpdateCounters: a skipped result is reported but not counted
UpdateCountersDropsSkipped(c, status) ==
    IF status = "processed" THEN [c EXCEPT !.processed = @ + 1]
    ELSE IF status = "skipped" THEN c
    ELSE [c EXCEPT !.errors = @ + 1]

\* _update_counters
UpdateCounters(c, status) ==
    IF status = "processed" THEN [c EXCEPT !.processed = @ + 1]
    ELSE IF status = "skipped" THEN [c EXCEPT !.skipped = @ + 1]
    ELSE [c EXCEPT !.errors = @ + 1]

Tasks == 1..Len(files)

Running == {j \in Tasks : pc[j] \notin {"queued", "done"}}

Consumed == {log[k].task : k \in 1..Len(log)}

\* a queued task may start: the pool hands tasks out in submission order to at
\* most config.workers threads; with workers <= 1 the loop calls process_path
\* itself and counts the result before the next file
MayStart(i) ==
    /\ pc[i] = "queued"
    /\ \A j \in 1..(i - 1) : pc[j] # "queued"
    /\ IF config.workers > 1
       THEN Cardinality(Running) < config.workers
       ELSE \A j \in 1..(i - 1) : j \in Consumed

NoLocals == [jpeg |-> None, did |-> FALSE, bakFree |-> FALSE, target |-> <<>>,
             base |-> <<>>, ext |-> <<>>, count |-> 0,
             wroteFailed |-> FALSE, moveFailed |-> FALSE]

\* the locals are gone once process_path has returned; what failed is kept
Returned(l) == [NoLocals EXCEPT !.wroteFailed = l.wroteFailed, !.moveFailed = l.moveFailed]

\* process_path leaves the embed step with locals l: into the rename block, or
\* to its tail
LeaveEmbed(i, l) ==
    IF config.do_rename
    THEN /\ pc' = [pc EXCEPT ![i] = "rename"]
         /\ loc' = [loc EXCEPT ![i] = l]
         /\ result' = result
    ELSE /\ pc' = [pc EXCEPT ![i] = "done"]
         /\ loc' = [loc EXCEPT ![i] = Returned(l)]
         /\ result' = [result EXCEPT ![i] =
                          Some(ProcessPathReturn(config, l.did, files[i], files[i]))]

\* the pool starts the task; process_path runs up to the call of embed_cover
Begin(i) ==
    /\ mainpc = "loop"
    /\ MayStart(i)
    /\ LET path == files[i]
           info == IF config.do_embed /\ Exists(fs, path)
                   THEN extract_cover_bytes(fs[path], path) ELSE None
           next == AfterExtract(info)
       IN IF next = "error"
          THEN /\ pc' = [pc EXCEPT ![i] = "done"]
               /\ result' = [result EXCEPT ![i] = Some(Result("error", path, DecodeMsg))]
               /\ loc' = loc
          ELSE IF next = "embed"
          THEN /\ pc' = [pc EXCEPT ![i] = IF config.backup THEN "bakcheck" ELSE "save"]
               /\ loc' = [loc EXCEPT ![i].jpeg = Some(process_image_to_jpeg(info[1].data))]
               /\ result' = result
          ELSE LeaveEmbed(i, loc[i])
    /\ UNCHANGED <<fs, fs0, config, files, log, counters, mainpc, faults, emb, tree, call>>

\* embed_cover: os.path.exists(bak)
BakCheck(i) ==
    /\ pc[i] = "bakcheck"
    /\ LET free == ~Exists(fs, BackupPath(files[i])) IN
       /\ loc' = [loc EXCEPT ![i].bakFree = free]
       /\ pc' = [pc EXCEPT ![i] = IF free THEN "bakcopy" ELSE "save"]
    /\ UNCHANGED <<fs, fs0, config, files, result, log, counters, mainpc, faults, emb, tree, call>>

\* embed_cover: shutil.copy2(path, bak), which may fail
BakCopy(i) ==
    /\ pc[i] = "bakcopy"
    /\ \/ /\ fs' = EmbedBackup(fs, files[i], TRUE, TRUE)
          /\ faults' = faults
       \/ /\ faults < MaxFaults
          /\ faults' = faults + 1
          /\ fs' = EmbedBackup(fs, files[i], TRUE, FALSE)
    /\ pc' = [pc EXCEPT ![i] = "save"]
    /\ UNCHANGED <<fs0, config, files, loc, result, log, counters, mainpc, emb, tree, call>>

\* embed_cover: the adapter rewrites the tags, which the container may reject;
\* embed_cover swallows the failure and process_path sets did_something
Save(i) ==
    /\ pc[i] = "save"
    /\ \/ /\ fs' = EmbedSave(fs, files[i], loc[i].jpeg[1], config.backup, TRUE)
          /\ faults' = faults
          /\ LeaveEmbed(i, [loc[i] EXCEPT !.did = TRUE, !.jpeg = None, !.bakFree = FALSE])
       \/ /\ faults < MaxFaults
          /\ faults' = faults + 1
          /\ fs' = EmbedSave(fs, files[i], loc[i].jpeg[1], config.backup, FALSE)
          /\ LeaveEmbed(i, [loc[i] EXCEPT !.did = TRUE, !.jpeg = None, !.bakFree = FALSE,
                                          !.wroteFailed = TRUE])
    /\ UNCHANGED <<fs0, config, files, log, counters, mainpc, emb, tree, call>>

\* the rename block up to the first line of safe_rename
Rename(i) ==
    /\ pc[i] = "rename"
    /\ LET path == files[i]
           track == IF Exists(fs, path) THEN get_track_number(fs[path], path) ELSE None
       IN IF track # None
          THEN LET new_name == NewName(fs[path], path) IN
               /\ loc' = [loc EXCEPT ![i].target = new_name,
                                     ![i].base = SplitExt(new_name)[1],
                                     ![i].ext = SplitExt(new_name)[2],
                                     ![i].count = 1]
               /\ pc' = [pc EXCEPT ![i] = "rncheck"]
               /\ result' = result
          ELSE /\ pc' = [pc EXCEPT ![i] = "done"]
               /\ result' = [result EXCEPT ![i] = Some(NoTrackReturn(config, loc[i].did, path))]
               /\ loc' = [loc EXCEPT ![i] = Returned(loc[i])]
    /\ UNCHANGED <<fs, fs0, config, files, log, counters, mainpc, faults, emb, tree, call>>

\* safe_rename: one evaluation of the while condition
RnCheck(i) ==
    /\ pc[i] = "rncheck"
    /\ IF KeepLooking(fs, loc[i].target, files[i])
       THEN /\ loc' = [loc EXCEPT ![i].target = Suffixed(loc[i].base, loc[i].count, loc[i].ext),
                                  ![i].count = @ + 1]
            /\ pc' = pc
       ELSE /\ pc' = [pc EXCEPT ![i] = "rnmove"]
            /\ loc' = loc
    /\ UNCHANGED <<fs, fs0, config, files, result, log, counters, mainpc, faults, emb, tree, call>>

\* safe_rename: shutil.move, whose failure is swallowed (old_path comes back);
\* process_path then sets did_something and returns
RnMove(i) ==
    /\ pc[i] = "rnmove"
    /\ \/ /\ Exists(fs, files[i])
          /\ fs' = Move(fs, files[i], loc[i].target)
          /\ faults' = faults
          /\ loc' = [loc EXCEPT ![i] = Returned(loc[i])]
          /\ result' = [result EXCEPT ![i] =
                           Some(ProcessPathReturn(config, TRUE, files[i], loc[i].target))]
       \/ /\ faults < MaxFaults \/ ~Exists(fs, files[i])
          /\ faults' = IF Exists(fs, files[i]) THEN faults + 1 ELSE faults
          /\ fs' = fs
          /\ loc' = [loc EXCEPT ![i] = [Returned(loc[i]) EXCEPT !.moveFailed = TRUE]]
          /\ result' = [result EXCEPT ![i] =
                           Some(ProcessPathReturn(config, TRUE, files[i], files[i]))]
    /\ pc' = [pc EXCEPT ![i] = "done"]
    /\ UNCHANGED <<fs0, config, files, log, counters, mainpc, emb, tree, call>>

\* the driving loop takes the result of a finished task (as_completed yields
\* every future once) and counts it
Consume(i) ==
    /\ mainpc = "loop"
    /\ result[i] # None
    /\ i \notin Consumed
    /\ log' = Append(log, [task |-> i, status |-> result[i][1].status,
                           path |-> result[i][1].path, msg |-> result[i][1].msg])
    /\ counters' = UpdateCounters(counters, result[i][1].status)
    /\ UNCHANGED <<fs, fs0, config, files, pc, loc, result, mainpc, faults, emb, tree, call>>

\* process_files returns its counters
Return ==
    /\ mainpc = "loop"
    /\ Consumed = Tasks
    /\ mainpc' = "done"
    /\ UNCHANGED <<fs, fs0, config, files, pc, loc, result, log, counters, faults, emb, tree, call>>

\* ------------------------------------------------------------------ the batch
TitleX == <<"X">>
Letters == <<"a", "b", "c", "d">>

\* the file asset i is before the run
AssetFile(i, cover, track, title) ==
    FileRec(i, cover # None \/ track # None \/ title # None,
            IF cover = None THEN <<>> ELSE <<OldApic(cover[1])>>, <<>>, TRUE, track, title)

Kinds == {
    [cover |-> None, track |-> None, title |-> Some(TitleX)],
    [cover |-> None, track |-> Some(1), title |-> Some(TitleX)],
    [cover |-> Some(PngWide), track |-> None, title |-> None],
    [cover |-> Some(PngWide), track |-> Some(1), title |-> Some(TitleX)],
    [cover |-> Some(Junk), track |-> Some(1), title |-> Some(TitleX)] }

Configs ==
    {[do_embed |-> e, do_rename |-> r, backup |-> b, workers |-> w] :
        e \in BOOLEAN, r \in BOOLEAN, b \in BOOLEAN, w \in {1, DefaultWorkers}}

Init ==
    /\ config \in {c \in Configs : (c.backup => c.do_embed) /\ c.workers > 1}
    /\ files = [i \in 1..NumAssets |-> <<Letters[i]>> \o DotMp3]
    /\ \E kind \in [1..NumAssets -> Kinds] :
          fs = [n \in {files[i] : i \in 1..NumAssets} |->
                  LET i == CHOOSE j \in 1..NumAssets : files[j] = n
                  IN AssetFile(i, kind[i].cover, kind[i].track, kind[i].title)]
    /\ fs0 = fs
    /\ pc = [i \in 1..NumAssets |-> "queued"]
    /\ loc = [i \in 1..NumAssets |-> NoLocals]
    /\ result = [i \in 1..NumAssets |-> None]
    /\ log = <<>>
    /\ counters = [processed |-> 0, skipped |-> 0, errors |-> 0]
    /\ mainpc = "loop"
    /\ faults = 0
    /\ emb = NoEmb
    /\ tree = NoTree
    /\ call = NoCall

Next ==
    \/ \E i \in Tasks : Begin(i)
    \/ \E i \in Tasks : BakCheck(i)
    \/ \E i \in Tasks : BakCopy(i)
    \/ \E i \in Tasks : Save(i)
    \/ \E i \in Tasks : Rename(i)
    \/ \E i \in Tasks : RnCheck(i)
    \/ \E i \in Tasks : RnMove(i)
    \/ \E i \in Tasks : Consume(i)
    \/ Return

Spec == Init /\ [][Next]_vars

\* ------------------------------------------------------------------ claims on the batch
StatusCount(st) == Cardinality({k \in 1..Len(log) : log[k].status = st})

\* C1: the driving loop takes exactly one result per submitted asset, none
\* twice, whatever the completion order, and on return
\* processed + skipped + errors = N.
C1_OneResultPerAsset ==
    /\ \A k, l \in 1..Len(log) : k # l => log[k].task # log[l].task
    /\ \A k \in 1..Len(log) :
          result[log[k].task] = Some(Result(log[k].status, log[k].path, log[k].msg))
    /\ counters.processed = StatusCount("processed")
    /\ counters.skipped = StatusCount("skipped")
    /\ counters.errors = StatusCount("error")
    /\ counters.processed + counters.skipped + counters.errors = Len(log)
    /\ mainpc = "done" =>
          /\ {log[k].task : k \in 1..Len(log)} = 1..Len(files)
          /\ counters.processed + counters.skipped + counters.errors = Len(files)

C1_Witness ==
    /\ mainpc = "done"
    /\ config.workers > 1
    /\ Len(log) = Len(files)
    /\ log[1].task # 1
    /\ counters.errors >= 1
    /\ counters.skipped >= 1

\* C2: no asset of the batch is deleted or overwritten by the workers'
\* renames: every asset is still in the directory, and the directory holds as
\* many files (backups aside) as before the batch.
C2_NoAssetLost ==
    /\ \A i \in Tasks : \E n \in DOMAIN fs : fs[n].asset = i /\ ~fs[n].bak
    /\ Cardinality({n \in DOMAIN fs : ~fs[n].bak}) = Cardinality(DOMAIN fs0)

\* C3: an asset whose cover write failed inside embed_cover ends with an
\* Error result, its file as it was.
C3_WriteFailureIsError ==
    \A i \in Tasks :
        (result[i] # None /\ loc[i].wroteFailed) => result[i][1].status = "error"

\* C4: an asset whose rename failed ends with an Error result, its file still
\* at the original path.
C4_RenameFailureIsError ==
    \A i \in Tasks :
        (result[i] # None /\ loc[i].moveFailed)
        => /\ result[i][1].status = "error"
           /\ Exists(fs, files[i])
           /\ fs[files[i]].asset = i

\* what the asset held before the run, as the readers see it
CoverBefore(i) == extract_cover_bytes(fs0[files[i]], files[i])
TrackBefore(i) == get_track_number(fs0[files[i]], files[i])

\* the normalizer raises on this asset
DecodeRaises(i) ==
    config.do_embed /\ CoverBefore(i) # None /\ NormalizeRaises(CoverBefore(i)[1].data)

\* C5: when no exception is raised, the result is Skipped exactly when
\* neither requested step found its input (cover for embed, track number for
\* rename) and Processed otherwise; the reason is "no embedded cover" for
\* embed only, "no track number metadata" for rename only and "no cover and
\* no track number" for both.
C5_SkippedIffNoWork ==
    \A i \in Tasks :
        (result[i] # None /\ ~DecodeRaises(i)) =>
            LET didWork == \/ config.do_embed /\ CoverBefore(i) # None
                           \/ config.do_rename /\ TrackBefore(i) # None
                r == result[i][1]
            IN /\ r.status = IF didWork THEN "processed" ELSE "skipped"
               /\ (~didWork /\ config.do_embed /\ ~config.do_rename)
                     => r.msg = "no embedded cover"
               /\ (~didWork /\ config.do_rename /\ ~config.do_embed)
                     => r.msg = "no track number metadata"
               /\ (~didWork /\ config.do_rename /\ config.do_embed)
                     => r.msg = "no cover and no track number"

C5_Witness ==
    \E i \in Tasks :
        /\ result[i] # None
        /\ config.do_rename /\ ~config.do_embed
        /\ TrackBefore(i) = None
        /\ result[i][1] = Result("skipped", files[i], "no track number metadata")

\* C6: an asset on which the normalizer raises ends with an Error result
\* carrying the exception's message and the original path, no later step
\* having run (no backup, no rewrite, no rename); the batch goes on, and on
\* return every asset has its own result.
C6_ErrorEndsAssetOnly ==
    /\ \A i \in Tasks :
          DecodeRaises(i) =>
             /\ pc[i] \in {"queued", "done"}
             /\ pc[i] = "done" => result[i] = Some(Result("error", files[i], DecodeMsg))
             /\ Exists(fs, files[i]) /\ fs[files[i]] = fs0[files[i]]
             /\ \A n \in DOMAIN fs : fs[n].asset = i => n = files[i]
    /\ \A j \in Tasks : pc[j] = "done" <=> result[j] # None
    /\ mainpc = "done" => \A j \in Tasks : result[j] # None /\ j \in Consumed

C6_Witness ==
    /\ mainpc = "done"
    /\ config.do_rename
    /\ \E i, j \in Tasks :
          /\ DecodeRaises(i) /\ TrackBefore(i) # None
          /\ result[i][1].status = "error"
          /\ result[j][1].status = "processed"

\* ------------------------------------------------------------------ safe_rename alone
\* SpecRename: process_files on one file, rename only, workers = 1, in a
\* directory where any of the names the file can be given may be taken.
MaxSuffix == 2

NameX == <<"0", "1", ".", " ", "X">>

TakenNames == {NameX \o DotMp3} \cup {Suffixed(NameX, k, DotMp3) : k \in 1..MaxSuffix}

InitRename ==
    /\ config = [do_embed |-> FALSE, do_rename |-> TRUE, backup |-> FALSE, workers |-> 1]
    /\ \E path \in TakenNames \cup {<<"a">> \o DotMp3}, title \in {None, Some(TitleX)} :
         \E others \in SUBSET (TakenNames \ {path}) :
            /\ files = <<path>>
            /\ fs = [n \in others \cup {path} |->
                        IF n = path THEN AssetFile(1, None, Some(1), title) ELSE OtherFile]
    /\ fs0 = fs
    /\ pc = <<"queued">>
    /\ loc = <<NoLocals>>
    /\ result = <<None>>
    /\ log = <<>>
    /\ counters = [processed |-> 0, skipped |-> 0, errors |-> 0]
    /\ mainpc = "loop"
    /\ faults = 0
    /\ emb = NoEmb
    /\ tree = NoTree
    /\ call = NoCall

NextRename ==
    \/ \E i \in Tasks : Begin(i)
    \/ \E i \in Tasks : Rename(i)
    \/ \E i \in Tasks : RnCheck(i)
    \/ \E i \in Tasks : RnMove(i)
    \/ \E i \in Tasks : Consume(i)
    \/ Return

SpecRename == InitRename /\ [][NextRename]_vars

\* the k-th name safe_rename tries for the file of task i
Candidate(i, k) ==
    LET new_name == NewName(fs0[files[i]], files[i]) IN
    IF k = 0 THEN new_name
    ELSE SplitExt(new_name)[1] \o <<"_">> \o Digits(k) \o SplitExt(new_name)[2]

\* C7: the path safe_rename moves the file to names no existing file other
\* than the original: it is the first of new_name, base_1, base_2, ... that is
\* free or is the original's own name, and the move leaves every other file
\* of the directory as it was.
C7_TargetIsFirstFree ==
    \A i \in Tasks :
        /\ pc[i] = "rnmove" =>
              LET k == loc[i].count - 1 IN
              /\ loc[i].target = Candidate(i, k)
              /\ ~Exists(fs, loc[i].target) \/ loc[i].target = files[i]
              /\ \A j \in 0..(k - 1) :
                    Exists(fs, Candidate(i, j)) /\ Candidate(i, j) # files[i]
        /\ pc[i] = "done" =>
              \A n \in DOMAIN fs0 \ {files[i]} : Exists(fs, n) /\ fs[n] = fs0[n]

C7_Witness ==
    /\ pc[1] = "done"
    /\ ~loc[1].moveFailed
    /\ result[1][1].path = Suffixed(NameX, MaxSuffix, DotMp3)
    /\ files[1] # result[1][1].path
    /\ Exists(fs, NameX \o DotMp3)

\* ------------------------------------------------------------------ direct calls of embed_cover
\* SpecEmbed: one file, embed_cover called on it up to MaxCalls times with
\* any JPEG, backup flag and I/O outcome, extract_cover_bytes right after.
\* the JPEG bytes the normalizer can hand to embed_cover
JpegInputs == {process_image_to_jpeg(PngWide), process_image_to_jpeg(JpegSmall)}

EmbedExts == {DotMp3, <<".", "M", "P", "3">>, DotM4a, DotMp4, DotFlac,
              <<".", "F", "L", "A", "C">>, DotOgg, DotOpus, <<".", "O", "g", "g">>,
              <<".", "w", "a", "v">>}

\* the files a path of that extension can name
FilesOfExt(ext) ==
    LET a == AdapterOf(Lower(ext)) IN
    IF a = "ID3" THEN
        {FileRec(1, FALSE, <<>>, <<>>, TRUE, None, None)} \cup
        {FileRec(1, TRUE, ap, <<>>, TRUE, None, None) :
            ap \in {<<>>, <<OldApic(PngWide)>>, <<OldApic(JpegSmall), OldApic(PngWide)>>}}
    ELSE IF a = "MP4" THEN
        {FileRec(1, FALSE, <<>>, nat, TRUE, None, None) :
            nat \in {<<>>, <<OldCovr(PngWide)>>, <<OldCovr(JpegSmall), OldCovr(PngWide)>>}}
    ELSE IF a = "FLAC" THEN
        {FileRec(1, FALSE, <<>>, nat, TRUE, None, None) :
            nat \in {<<>>, <<OldPicture(PngWide)>>, <<OldPicture(JpegSmall), OldPicture(PngWide)>>}}
    ELSE IF a = "Vorbis" THEN
        {FileRec(1, FALSE, <<>>, nat, TRUE, None, None) :
            nat \in {<<>>, <<OldPicture(PngWide)>>, <<RawValue(JpegSmall)>>}}
    ELSE
        {FileRec(1, id3, ap, <<>>, opens, None, None) :
            id3 \in BOOLEAN, opens \in BOOLEAN, ap \in {<<>>, <<OldApic(PngWide)>>}}

StemS == <<"s">>

\* the covers the reader of that path lists
CoverCount(f, path) ==
    IF ExtractAdapter(path) \in {"ID3", "Generic"} THEN Len(f.apics) ELSE Len(f.native)

IdleBatch ==
    /\ config = [do_embed |-> FALSE, do_rename |-> FALSE, backup |-> FALSE, workers |-> 1]
    /\ files = <<>>
    /\ pc = <<>>
    /\ loc = <<>>
    /\ result = <<>>
    /\ log = <<>>
    /\ counters = [processed |-> 0, skipped |-> 0, errors |-> 0]
    /\ mainpc = "done"
    /\ faults = 0

InitEmbed ==
    /\ IdleBatch
    /\ \E ext \in EmbedExts, bakThere \in BOOLEAN :
         \E f \in FilesOfExt(ext) :
            LET path == StemS \o ext IN
            /\ fs = [n \in {path} \cup (IF bakThere THEN {BackupPath(path)} ELSE {}) |->
                        IF n = path THEN f ELSE OtherFile]
            /\ emb = [path |-> path, calls |-> 0, phase |-> "idle", orig |-> f,
                      bakAtStart |-> bakThere, allBackup |-> TRUE,
                      jpeg |-> None, backup |-> FALSE, adapter |-> "none", writeOk |-> FALSE,
                      extracted |-> None]
    /\ fs0 = fs
    /\ tree = NoTree
    /\ call = NoCall

\* embed_cover(path, jpeg, backup); copyOk and writeOk are what the file
\* system answers to copy2 and to the save
EmbedCall(jpeg, backup, copyOk, writeOk) ==
    /\ emb.calls < MaxCalls
    /\ fs' = embed_cover(fs, emb.path, jpeg, backup, copyOk, writeOk)
    /\ emb' = [emb EXCEPT !.calls = @ + 1, !.phase = "embedded",
                          !.allBackup = @ /\ backup,
                          !.jpeg = jpeg, !.backup = backup,
                          !.adapter = EmbedAdapter(emb.path, backup),
                          !.writeOk = writeOk]
    /\ UNCHANGED <<fs0, config, files, pc, loc, result, log, counters, mainpc, faults, tree, call>>

\* extract_cover_bytes(path), right after an embed_cover
ExtractCall ==
    /\ emb.phase = "embedded"
    /\ emb' = [emb EXCEPT !.phase = "extracted",
                          !.extracted = extract_cover_bytes(fs[emb.path], emb.path)]
    /\ UNCHANGED <<fs, fs0, config, files, pc, loc, result, log, counters, mainpc, faults, tree, call>>

NextEmbed ==
    \/ \E jpeg \in JpegInputs, backup \in BOOLEAN, copyOk \in BOOLEAN, writeOk \in BOOLEAN :
          EmbedCall(jpeg, backup, copyOk, writeOk)
    \/ ExtractCall

SpecEmbed == InitEmbed /\ [][NextEmbed]_vars

\* C8: with backup requested on every call and no file at the backup path
\* beforehand, a backup that exists holds the file as it was before the first
\* rewrite.
C8_BackupHoldsOriginal ==
    (emb.phase # "idle" /\ emb.allBackup /\ ~emb.bakAtStart
       /\ Exists(fs, BackupPath(emb.path)))
    => fs[BackupPath(emb.path)] = [emb.orig EXCEPT !.bak = TRUE]

\* C9: embed_cover selects the adapter the readers select for the same path,
\* whatever the letter case of the extension and the backup flag.
C9_SameAdapter ==
    emb.phase # "idle" =>
        /\ emb.adapter = ExtractAdapter(emb.path)
        /\ emb.adapter = TrackAdapter(emb.path)
        /\ emb.adapter = TitleAdapter(emb.path)
        /\ emb.adapter = AlbumAdapter(emb.path)

\* C10: whenever the container did not reject the write, extract_cover_bytes
\* right after embed_cover returns the embedded bytes with MIME image/jpeg, and
\* the file holds exactly one cover.
C10_RoundTrip ==
    (emb.phase = "extracted" /\ emb.writeOk)
    => /\ emb.extracted = Some(Cover(emb.jpeg, "image/jpeg"))
       /\ CoverCount(fs[emb.path], emb.path) = 1

\* ------------------------------------------------------------------ direct calls of process_image_to_jpeg
\* SpecNormalize: process_image_to_jpeg called on images of every size around
\* the sizes that matter: tiny, about target_width, and twice as large.
MaxDim == 8

Widths == (1..MaxDim) \cup {TargetWidth + d : d \in (0 - MaxDim)..MaxDim}
             \cup {2 * TargetWidth, 2 * TargetWidth + 1}
Heights == (1..MaxDim) \cup {TargetWidth, 2 * TargetWidth}

\* no batch, no file: only direct calls happen
IdleFiles ==
    /\ IdleBatch
    /\ fs = <<>>
    /\ fs0 = <<>>
    /\ emb = NoEmb

InitNormalize ==
    /\ IdleFiles
    /\ tree = NoTree
    /\ call = NoCall

\* process_image_to_jpeg(img_bytes) on a decodable image of w x h pixels
NormalizeCall(w, h) ==
    /\ LET d == [fmt |-> "png", w |-> w, h |-> h, img |-> 1] IN
       call' = [fn |-> "process_image_to_jpeg", w |-> w, h |-> h,
                raised |-> NormalizeRaises(d),
                out |-> IF NormalizeRaises(d) THEN None ELSE Some(process_image_to_jpeg(d))]
    /\ UNCHANGED <<fs, fs0, config, files, pc, loc, result, log, counters, mainpc, faults,
                   emb, tree>>

NextNormalize == \E w \in Widths, h \in Heights : NormalizeCall(w, h)

SpecNormalize == InitNormalize /\ [][NextNormalize]_vars

\* round(a / b), halves up
RoundDiv(a, b) == (2 * a + b) \div (2 * b)

\* C11: for every source image of W x H pixels, W, H >= 1, the normalizer
\* returns an image of W x H when W <= 600 and of 600 x h when W > 600, with h
\* within one pixel of round(600 * H / W); the height is at least 1 and no
\* side grows.
C11_NormalizedDims ==
    call.fn = "process_image_to_jpeg" =>
        /\ ~call.raised
        /\ LET out == call.out[1]
               h == RoundDiv(TargetWidth * call.h, call.w)
           IN /\ out.h >= 1
              /\ call.w <= TargetWidth => (out.w = call.w /\ out.h = call.h)
              /\ call.w > TargetWidth =>
                    (out.w = TargetWidth /\ out.h >= h - 1 /\ out.h <= h + 1)
              /\ out.w <= call.w /\ out.h <= call.h

\* ------------------------------------------------------------------ folders
\* A folder of the parent directory: files (its direct children, in the order
\* os.walk lists them) and nested (the files of its subdirectory SubDir).  A
\* file entry is its name and what its tags answer: id3, opens, album.  A path
\* is the directory (folder name, then SubDir for a nested file) and the name.
DEFAULT_EXTENSIONS ==
    {DotMp3, DotM4a, DotMp4, DotFlac, DotOgg, DotOpus,
     <<".", "w", "a", "v">>, <<".", "a", "a", "c">>, <<".", "w", "m", "a">>}

SubDir == <<"s", "u", "b">>

Folder(fls, nested) == [files |-> fls, nested |-> nested]

Tags(id3, opens, album) == [id3 |-> id3, opens |-> opens, album |-> album]

PathOf(dir, name) == [dir |-> dir, name |-> name]

\* find_audio_files(root): os.walk, top directory first, keeping the names
\* whose lower-cased extension is an audio extension
find_audio_files(t, root) ==
    LET audio(e) == Lower(SplitExt(e.name)[2]) \in DEFAULT_EXTENSIONS
        top == SelectSeq(t[root].files, audio)
        sub == SelectSeq(t[root].nested, audio)
    IN [i \in 1..Len(top) |-> PathOf(<<root>>, top[i].name)]
       \o [i \in 1..Len(sub) |-> PathOf(<<root, SubDir>>, sub[i].name)]

\* the tags of the file a path names
TagsAt(t, path) ==
    LET entries == IF Len(path.dir) = 1 THEN t[path.dir[1]].files ELSE t[path.dir[1]].nested
    IN entries[CHOOSE i \in 1..Len(entries) : entries[i].name = path.name].tags

get_album(f, name) ==
    LET a == AlbumAdapter(name) IN
    IF a = "ID3" /\ ~f.id3 THEN None
    ELSE IF a = "Generic" /\ ~f.opens THEN None
    ELSE IF f.album = None \/ f.album[1] = <<>> THEN None
    ELSE f.album

\* mutant of DirectChild: every file os.walk finds votes
DirectChildAny(path, folder_path) == TRUE

\* os.path.dirname(file_path) == os.path.abspath(folder_path), for the
\* absolute folder paths process_folders passes
DirectChild(path, folder_path) == path.dir = <<folder_path>>

\* the list `albums` of get_majority_album
Albums(t, folder_path) ==
    LET found == find_audio_files(t, folder_path)
        votes(path) ==
            /\ DirectChild(path, folder_path)
            /\ get_album(TagsAt(t, path), path.name) # None
            /\ RStrip(LStrip(get_album(TagsAt(t, path), path.name)[1])) # <<>>
        kept == SelectSeq(found, votes)
    IN [i \in 1..Len(kept) |-> RStrip(LStrip(get_album(TagsAt(t, kept[i]), kept[i].name)[1]))]

\* Counter(albums).most_common(1)[0][0]: the counter lists the values in the
\* order they were first seen and max() keeps the first of the largest counts
MostCommon(albums) ==
    LET count(v) == Cardinality({i \in 1..Len(albums) : albums[i] = v})
        first(v) == CHOOSE i \in 1..Len(albums) :
                        albums[i] = v /\ \A j \in 1..(i - 1) : albums[j] # v
        best == CHOOSE i \in 1..Len(albums) :
                    /\ first(albums[i]) = i
                    /\ \A j \in 1..Len(albums) :
                          \/ count(albums[j]) < count(albums[i])
                          \/ count(albums[j]) = count(albums[i]) /\ first(albums[j]) >= i
    IN albums[best]

get_majority_album(t, folder_path) ==
    LET albums == Albums(t, folder_path) IN
    IF albums = <<>> THEN None ELSE Some(MostCommon(albums))

\* ------------------------------------------------------------------ direct calls of get_majority_album
\* SpecMajority: one folder with up to MaxChildren direct children and at most
\* one nested file, get_majority_album called on it.
MaxChildren == 3

Foo == <<"F", "o", "o">>
Bar == <<"B", "a", "r">>
FolderF == <<"F">>

\* a kind of file: extension and tags
FileKinds ==
    {[ext |-> DotMp3, tags |-> Tags(TRUE, TRUE, a)] :
        a \in {None, Some(Foo), Some(Bar), Some(<<" ">> \o Foo \o <<" ">>), Some(<<" ", " ">>)}}
    \cup {[ext |-> DotMp3, tags |-> Tags(FALSE, TRUE, Some(Bar))],
          [ext |-> <<".", "F", "L", "A", "C">>, tags |-> Tags(FALSE, TRUE, Some(Bar))],
          [ext |-> <<".", "t", "x", "t">>, tags |-> Tags(FALSE, TRUE, Some(Foo))]}

\* the i-th file of a directory, of kind k
FileEntry(i, k) == [name |-> Digits(i) \o k.ext, tags |-> k.tags]

Children(n) == {[i \in 1..Len(ks) |-> FileEntry(i, ks[i])] : ks \in [1..n -> FileKinds]}

NestedFiles ==
    {<<>>} \cup {<<FileEntry(1, [ext |-> DotMp3, tags |-> Tags(TRUE, TRUE, Some(a))])>> :
                    a \in {Foo, Bar}}

InitMajority ==
    /\ IdleFiles
    /\ \E n \in 0..MaxChildren :
         \E fls \in Children(n), nested \in NestedFiles :
            tree = (FolderF :> Folder(fls, nested))
    /\ call = NoCall

MajorityCall ==
    /\ call' = [fn |-> "get_majority_album", out |-> get_majority_album(tree, FolderF)]
    /\ UNCHANGED <<fs, fs0, config, files, pc, loc, result, log, counters, mainpc, faults,
                   emb, tree>>

NextMajority == MajorityCall

SpecMajority == InitMajority /\ [][NextMajority]_vars

\* the album values of the folder's direct-child audio files, trimmed, the
\* empty ones left out, in the order the files are met
DirectVotes ==
    LET fls == tree[FolderF].files
        ext(i) == Lower(SplitExt(fls[i].name)[2])
        album(i) == IF ext(i) \in DEFAULT_EXTENSIONS THEN get_album(fls[i].tags, fls[i].name)
                    ELSE None
        trimmed(i) == IF album(i) = None THEN <<>> ELSE RStrip(LStrip(album(i)[1]))
        voters == {i \in 1..Len(fls) : trimmed(i) # <<>>}
    IN [i \in voters |-> trimmed(i)]

\* C12: get_majority_album returns none exactly when no direct child yields
\* an album value; otherwise a value of the direct children than which none
\* is more frequent, and which was met before every other value as frequent.
\* Nested files never vote.
C12_MajorityOfDirectChildren ==
    call.fn = "get_majority_album" =>
        LET v == DirectVotes
            count(x) == Cardinality({i \in DOMAIN v : v[i] = x})
            first(x) == CHOOSE i \in DOMAIN v : v[i] = x /\ \A j \in DOMAIN v : v[j] = x => i <= j
        IN /\ call.out = None <=> DOMAIN v = {}
           /\ call.out # None =>
                 /\ \E i \in DOMAIN v : v[i] = call.out[1]
                 /\ \A i \in DOMAIN v :
                       \/ count(v[i]) < count(call.out[1])
                       \/ count(v[i]) = count(call.out[1]) /\ first(call.out[1]) <= first(v[i])

C12_Witness ==
    /\ call.fn = "get_majority_album"
    /\ call.out = Some(Foo)
    /\ tree[FolderF].nested # <<>>
    /\ tree[FolderF].nested[1].tags.album = Some(Bar)
    /\ Len(tree[FolderF].files) = 3
    /\ tree[FolderF].files[1].tags.album = Some(Bar)
    /\ tree[FolderF].files[2].tags.album = Some(<<" ">> \o Foo \o <<" ">>)
    /\ tree[FolderF].files[3].tags.album = Some(Foo)
    /\ \A i \in 1..3 : tree[FolderF].files[i].tags.id3

\* ------------------------------------------------------------------ rename_folder_by_album
\* os.path.exists(os.path.join(parent, name)): a sibling of that name, or the
\* parent itself (the empty name and "."), or its parent ("..")
ExistsInParent(t, name) ==
    name \in DOMAIN t \/ name \in {<<>>, <<".">>, <<".", ".">>}

\* mutant of NewFolderName: the sanitized album name is taken as it is
NewFolderNameUnchecked(t, safe_album) == safe_album

\* the conflict loop: safe_album, else the first of safe_album_1, _2, ...
\* that does not exist
RECURSIVE FirstFreeFrom(_, _, _)
FirstFreeFrom(t, safe_album, count) ==
    IF ExistsInParent(t, Suffixed(safe_album, count, <<>>))
    THEN FirstFreeFrom(t, safe_album, count + 1)
    ELSE Suffixed(safe_album, count, <<>>)

NewFolderName(t, safe_album) ==
    IF ExistsInParent(t, safe_album) THEN FirstFreeFrom(t, safe_album, 1) ELSE safe_album

\* os.rename(folder_path, new_path) inside one parent directory
RenameDir(t, old, new) ==
    IF old = new THEN t
    ELSE [n \in (DOMAIN t \ {old}) \cup {new} |-> IF n = new THEN t[old] ELSE t[n]]

RenameMsg == "failed to rename"

\* rename_folder_by_album(folder_path): the tuple it returns and the parent
\* directory it leaves; renameOk is what the file system answers to os.rename
rename_folder_by_album(t, folder, renameOk) ==
    LET album == get_majority_album(t, folder) IN
    IF album = None
    THEN [status |-> "skipped", old |-> folder, msg |-> "no album metadata found", tree |-> t]
    ELSE LET safe_album == sanitize_filename(album[1])
             new_name == NewFolderName(t, safe_album)
         IN IF folder = safe_album
            THEN [status |-> "skipped", old |-> folder, msg |-> "already named correctly",
                  tree |-> t]
            ELSE IF renameOk
            THEN [status |-> "processed", old |-> folder, msg |-> new_name,
                  tree |-> RenameDir(t, folder, new_name)]
            ELSE [status |-> "error", old |-> folder, msg |-> RenameMsg, tree |-> t]

\* ------------------------------------------------------------------ direct calls of rename_folder_by_album
\* SpecFolders: a parent directory holding some of FolderNames, each folder
\* with no audio file or one; rename_folder_by_album is called up to
\* MaxFolderCalls times on folders of the directory, as process_folders does
\* run after run.
MaxFolderCalls == 2

Bang == <<"!">>
Under1 == <<"_", "1">>

FolderNames == {FolderF, Foo, Suffixed(Foo, 1, <<>>), Under1}

FolderContents ==
    {Folder(<<>>, <<>>)} \cup
    {Folder(<<FileEntry(1, [ext |-> DotMp3, tags |-> Tags(TRUE, TRUE, Some(a))])>>, <<>>) :
        a \in {Foo, Bang}}

NoFolderCall == [fn |-> "none", calls |-> 0, status |-> "none", msg |-> <<>>]

InitFolders ==
    /\ IdleFiles
    /\ \E names \in SUBSET FolderNames :
          /\ names # {}
          /\ tree \in [names -> FolderContents]
    /\ call = NoFolderCall

\* one call of rename_folder_by_album(folder)
FolderCall(folder) ==
    /\ call.calls < MaxFolderCalls
    /\ \E renameOk \in BOOLEAN :
          /\ renameOk \/ faults < MaxFaults
          /\ \E r \in {rename_folder_by_album(tree, folder, renameOk)} :
             LET asked == r.status \in {"processed", "error"} IN
                /\ tree' = r.tree
                /\ faults' = IF asked /\ ~renameOk THEN faults + 1 ELSE faults
                /\ call' = [fn |-> "rename_folder_by_album", calls |-> call.calls + 1,
                            folder |-> folder, status |-> r.status, msg |-> r.msg,
                            failed |-> asked /\ ~renameOk, before |-> tree,
                            prev |-> [status |-> call.status, msg |-> call.msg]]
    /\ UNCHANGED <<fs, fs0, config, files, pc, loc, result, log, counters, mainpc, emb>>

NextFolders == \E folder \in DOMAIN tree : FolderCall(folder)

SpecFolders == InitFolders /\ [][NextFolders]_vars

\* C13: rename_folder_by_album returns Skipped exactly when no majority album
\* is found or the folder is already named as the sanitized album, and then
\* renames nothing; a refused os.rename is an Error and renames nothing;
\* otherwise the folder, and nothing else, is renamed to the sanitized album
\* name or, when that is taken, to the first free {name}_k, which is never the
\* name of an existing sibling and never empty.
C13_FolderRename ==
    call.fn = "rename_folder_by_album" =>
        LET b == call.before
            album == get_majority_album(b, call.folder)
            safe == IF album = None THEN <<>> ELSE sanitize_filename(album[1])
            taken(n) == n \in DOMAIN b \/ n = <<>>
        IN /\ call.status = "skipped" <=> (album = None \/ call.folder = safe)
           /\ call.status = "error" <=> call.failed
           /\ call.status \in {"skipped", "error"} => tree = b
           /\ call.status = "processed" =>
                 /\ call.msg # <<>>
                 /\ call.msg \notin DOMAIN b
                 /\ DOMAIN tree = (DOMAIN b \ {call.folder}) \cup {call.msg}
                 /\ tree[call.msg] = b[call.folder]
                 /\ \A n \in DOMAIN b \ {call.folder} : tree[n] = b[n]
                 /\ IF ~taken(safe) THEN call.msg = safe
                    ELSE \E k \in 1..(Cardinality(DOMAIN b) + 1) :
                            /\ call.msg = safe \o <<"_">> \o Digits(k)
                            /\ \A j \in 1..(k - 1) : taken(safe \o <<"_">> \o Digits(j))

C13_Witness ==
    /\ call.fn = "rename_folder_by_album"
    /\ call.status = "processed"
    /\ call.folder = FolderF
    /\ Foo \in DOMAIN call.before
    /\ Suffixed(Foo, 1, <<>>) \in DOMAIN call.before
    /\ call.msg = Suffixed(Foo, 2, <<>>)
    /\ Suffixed(Foo, 2, <<>>) \in DOMAIN tree

\* ------------------------------------------------------------------ the derived file name
\* SpecName: the rename block of process_path derives the new name of a file
\* with any track number, any title of up to MaxTitleLen characters (or one of
\* two longer ones) and any extension.
MaxTitleLen == 3

TitleChars == {"a", " ", "!", "/", "\\", "_", "\t"}

MySong == <<"M", "y", " ", "S", "o", "n", "g", "!">>

\* one character more than maxlen, a space where the cut falls
LongTitle == [i \in 1..(MaxLen + 1) |-> IF i = MaxLen THEN " " ELSE "a"]

Titles ==
    UNION {[1..n -> TitleChars] : n \in 1..MaxTitleLen} \cup {MySong, LongTitle}

TrackNumbers == {1, 7, 12, 100}

NameExts == {DotMp3, <<".", "F", "L", "A", "C">>}

\* the file to rename: its track number, title and extension
InitName ==
    /\ IdleFiles
    /\ tree = NoTree
    /\ \E track \in TrackNumbers, title \in Titles, ext \in NameExts :
          call = [fn |-> "rename block", track |-> track, title |-> title, ext |-> ext,
                  out |-> <<>>]

\* lines 572-578 of process_path on a file whose tags hold track and title
NameCall ==
    /\ call.fn = "rename block"
    /\ call' = [call EXCEPT
                  !.fn = "new_name",
                  !.out = NewName(AssetFile(1, None, Some(call.track), Some(call.title)),
                                  StemS \o call.ext)]
    /\ UNCHANGED <<fs, fs0, config, files, pc, loc, result, log, counters, mainpc, faults,
                   emb, tree>>

NextName == NameCall

SpecName == InitName /\ [][NextName]_vars

\* the sanitized title as the claim words it
ClaimedTitle(title) ==
    LET trimmed == RStrip(LStrip(title))
        replaced == [i \in 1..Len(trimmed) |->
                        IF trimmed[i] \in {"/", "\\"} THEN "_" ELSE trimmed[i]]
        kept == SelectSeq(replaced, Allowed)
        collapsed == CollapseSpaces(kept)
    IN IF Len(collapsed) > MaxLen THEN RStrip(SubSeq(collapsed, 1, MaxLen)) ELSE collapsed

\* C14: the derived name is the track number on two digits, ". ", the title
\* trimmed, with every "/" and "\" replaced by "_", every character outside
\* letters, digits, "_", space, "-", ".", "()", "[]" removed, whitespace runs
\* collapsed and cut to 200 characters without trailing whitespace, then the
\* extension.
C14_DerivedName ==
    call.fn = "new_name" =>
        call.out = (IF call.track < 10 THEN <<"0">> ELSE <<>>) \o Digits(call.track)
                      \o <<".", " ">> \o ClaimedTitle(call.title) \o call.ext

\* ------------------------------------------------------------------ renaming again
\* SpecRerun: SpecRename, and once process_files has returned it is started
\* again, up to MaxRuns runs in all, on the path the run before returned.
MaxRuns == 2

\* how many runs have been started
Runs == IF call.fn = "none" THEN 1 ELSE call.runs

\* process_files([new_path], config), new_path being what process_path
\* returned in the run before
RunAgain ==
    /\ mainpc = "done"
    /\ Len(files) = 1
    /\ Runs < MaxRuns
    /\ call' = [fn |-> "process_files", runs |-> Runs + 1,
                moved |-> result[1][1].status = "processed" /\ ~loc[1].moveFailed]
    /\ files' = <<result[1][1].path>>
    /\ fs0' = fs
    /\ pc' = <<"queued">>
    /\ loc' = <<NoLocals>>
    /\ result' = <<None>>
    /\ log' = <<>>
    /\ counters' = [processed |-> 0, skipped |-> 0, errors |-> 0]
    /\ mainpc' = "loop"
    /\ UNCHANGED <<fs, config, faults, emb, tree>>

NextRerun ==
    \/ \E i \in Tasks : Begin(i)
    \/ \E i \in Tasks : Rename(i)
    \/ \E i \in Tasks : RnCheck(i)
    \/ \E i \in Tasks : RnMove(i)
    \/ \E i \in Tasks : Consume(i)
    \/ Return
    \/ RunAgain

SpecRerun == InitRename /\ [][NextRerun]_vars

\* C15: when a run has renamed the file, a further run with rename requested
\* on the returned path, nothing else having changed, returns that same path
\* and leaves the directory as it was.
C15_RenameIdempotent ==
    (call.fn = "process_files" /\ call.moved /\ pc[1] = "done" /\ ~loc[1].moveFailed)
    => /\ result[1][1].path = files[1]
       /\ fs = fs0

\* ------------------------------------------------------------------ renaming a folder again
\* C16: (SpecFolders) when a call has renamed a folder, the next call, on the
\* renamed folder, nothing else having changed, is Skipped and renames
\* nothing, also when the first call took a suffixed name.
C16_FolderRenameStable ==
    (call.fn = "rename_folder_by_album" /\ call.prev.status = "processed"
        /\ call.folder = call.prev.msg)
    => /\ call.status = "skipped"
       /\ tree = call.before

====
